---- MODULE Spec2Model ----
(***************************************************************************)
(* printer.py: a Sonoff smart plug powers a printer on and off.  The only  *)
(* persisted state is the marker file LOCK_FILE, which holds the Unix time *)
(* of the last power-on.  The environment is the clock, the content of the *)
(* marker file, the device behind the HTTP endpoint, the lpstat command    *)
(* and the outcome of every file operation.                                *)
(***************************************************************************)
EXTENDS Integers, Sequences, FiniteSets, TLC

(* ------------------------------ bounds --------------------------------- *)

\* The last second of the clock.  The first is Window, so that a marker
\* written at second 0, 1 or 2 is 60, 59 or 58 seconds old at the start.
MaxTime == 63

\* Seconds that may pass while one invocation runs.
MaxElapsed == 1

(* ------------------------- program constants --------------------------- *)

\* printer.py:58, the debounce window in seconds.
Window == 60

\* printer.py:32, the status code make_printer_request reports on a
\* transport failure.
TransportFailureStatus == 500

\* The status code of a successful HTTP response (printer.py:76,102,111).
HttpOk == 200

\* printer.py:128, the length of sys.argv for one positional argument.
ExpectedArgc == 2

\* printer.py:130,140, the status of sys.exit(1); also the status of an
\* interpreter that ends on an uncaught exception.
ExitFailure == 1

\* printer.py:2-8, the names the import statements bind.
Imports == {"os", "time", "json", "subprocess", "requests", "datetime",
            "Tuple", "Optional"}

(* ------------------------------ text ----------------------------------- *)

Digits == <<"0", "1", "2", "3", "4", "5", "6", "7", "8", "9">>

AsciiDigit == {Digits[i] : i \in 1..Len(Digits)}

\* A character str.isdigit() accepts and int() rejects (superscript two).
SuperscriptTwo == "sup2"

Whitespace == {" ", "nl"}

DigitValue(c) == CHOOSE v \in 0..9 : Digits[v + 1] = c

\* str(n) for n >= 0: the decimal digits, most significant first.
RECURSIVE str(_)
str(n) ==
    IF n < 10 THEN <<Digits[n + 1]>>
    ELSE str(n \div 10) \o <<Digits[(n % 10) + 1]>>

\* int(s) for a string of ASCII digits.
RECURSIVE int(_)
int(s) ==
    IF Len(s) = 0 THEN 0
    ELSE 10 * int(SubSeq(s, 1, Len(s) - 1)) + DigitValue(s[Len(s)])

\* int(s) raises ValueError on a digit character that is not a decimal.
int_raises(s) == \E i \in 1..Len(s) : s[i] \notin AsciiDigit

RECURSIVE lstrip(_)
lstrip(s) ==
    IF Len(s) > 0 /\ Head(s) \in Whitespace THEN lstrip(Tail(s)) ELSE s

RECURSIVE rstrip(_)
rstrip(s) ==
    IF Len(s) > 0 /\ s[Len(s)] \in Whitespace
    THEN rstrip(SubSeq(s, 1, Len(s) - 1))
    ELSE s

\* str.strip()
strip(s) == rstrip(lstrip(s))

\* str.isdigit(): non-empty and every character a digit character.
isdigit(s) ==
    /\ Len(s) > 0
    /\ \A i \in 1..Len(s) : s[i] \in AsciiDigit \cup {SuperscriptTwo}

(* --------------------------- marker file ------------------------------- *)

NoFile == [exists |-> FALSE, content |-> <<>>]

FileWith(text) == [exists |-> TRUE, content |-> text]

\* Marker files the program may find when it is first run: none, one an
\* earlier run wrote at second 0, 1 or 2, and files something else left
\* behind.
InitialFiles ==
    {NoFile, FileWith(str(0)), FileWith(str(1)), FileWith(str(2)),
     FileWith(<<>>), FileWith(<<"x">>), FileWith(<<" ", "0", "nl">>),
     FileWith(<<"-", "1">>), FileWith(<<SuperscriptTwo>>)}

(* ----------------------- device and environment ------------------------ *)

\* What one HTTP exchange with the device can come to: requests.post raises
\* RequestException, or an HTTP response arrives with a status code and a
\* JSON body.  Of the body only the keys the program reads are kept:
\* "error" ("None" when the key is missing) and "data" ("None" when the key
\* is missing, "null" for a value that is no object, "{}" for an object
\* without "switch", else the value of "switch").
TransportError == [kind |-> "exception", status |-> 0, error |-> "None", data |-> "None"]

Http(status, error, data) == [kind |-> "http", status |-> status, error |-> error, data |-> data]

\* Answers to the status query; a device that reports its switch reports
\* the state it is in.
InfoAnswers(device) ==
    {TransportError, Http(404, "None", "None"), Http(404, "0", device),
     Http(HttpOk, "0", device), Http(HttpOk, "0", "{}"),
     Http(HttpOk, "0", "null"), Http(HttpOk, "0", "None"),
     Http(HttpOk, "400", "None"), Http(HttpOk, "400", device)}

\* Answers to a switch command.
SwitchAnswers ==
    {TransportError, Http(404, "None", "None"), Http(HttpOk, "0", "None"),
     Http(HttpOk, "400", "None"), Http(HttpOk, "None", "None")}

\* The device obeys a switch command exactly when it acknowledges it.
DeviceAfter(device, wanted, answer) ==
    IF answer.kind = "http" /\ answer.status = HttpOk /\ answer.error = "0"
    THEN wanted
    ELSE device

\* What running lpstat -o can come to: it ran and printed stdout, or
\* subprocess.run raised SubprocessError, or it raised OSError (no lpstat).
LpRan(stdout) == [kind |-> "ran", stdout |-> stdout]

LpNotRun == [kind |-> "not_run", stdout |-> <<>>]

LpOutcomes ==
    {LpRan(<<>>), LpRan(<<"nl">>), LpRan(<<"j", "o", "b", "nl">>),
     [kind |-> "SubprocessError", stdout |-> <<>>],
     [kind |-> "OSError", stdout |-> <<>>]}

\* Command lines the scheduler may run: sys.argv, script name first.
CommandLines ==
    {<<"printer.py">>, <<"printer.py", "on">>, <<"printer.py", "off">>,
     <<"printer.py", "status">>, <<"printer.py", "on", "off">>}

(* ----------------------------- helpers --------------------------------- *)

\* printer.py:21-32.  The pair (response, status_code).
make_printer_request(answer) ==
    IF answer.kind = "exception"
    THEN [response |-> [error |-> "None", data |-> "None"],
          status_code |-> TransportFailureStatus]
    ELSE [response |-> [error |-> answer.error, data |-> answer.data],
          status_code |-> answer.status]

\* A get_pending_print_jobs that loses the output of lpstat.
get_pending_print_jobs_lost(lp) == <<>>

\* printer.py:34-41.  The stripped stdout, "" on SubprocessError; an
\* OSError is not caught here.
get_pending_print_jobs(lp) ==
    IF lp.kind = "SubprocessError" THEN <<>> ELSE strip(lp.stdout)

\* printer.py:76 and 111: status_code == 200 and response.get('error') == 0
command_succeeded(r) == r.status_code = HttpOk /\ r.response.error = "0"

\* The comparison of line 58 with a window one second short.
is_recent_short(last_print_time, current_time) ==
    last_print_time > (current_time - Window) + 1

\* printer.py:58: last_print_time > (current_time - 60)
is_recent(last_print_time, current_time) ==
    last_print_time > (current_time - Window)

\* printer.py:52-62: should_turn_off after the marker check, as "True" or
\* "False", or "ValueError" when int(value) raises (not caught by except
\* IOError).  read is the outcome of open/read: "ok" or "IOError".
marker_check(file, current_time, read) ==
    IF ~file.exists THEN "True"
    ELSE IF read = "IOError" THEN "False"
    ELSE LET value == strip(file.content) IN
         IF Len(value) > 0 /\ isdigit(value)
         THEN IF int_raises(value) THEN "ValueError"
              ELSE IF is_recent(int(value), current_time) THEN "False"
              ELSE "True"
         ELSE "True"

\* A write_timestamp_file that never touches the file.
write_timestamp_file_skipped(file, timestamp, write) == file

\* printer.py:85-91.  open(filename, 'w') creates or truncates the file
\* and the write stores str(timestamp); an IOError at open leaves the file
\* as it was, an IOError at the write leaves it empty.  Both are caught.
write_timestamp_file(file, timestamp, write) ==
    CASE write = "ok" -> FileWith(str(timestamp))
      [] write = "IOError at open" -> file
      [] write = "IOError at write" -> FileWith(<<>>)

\* An os.remove that is never carried out.
os_remove_skipped(file, remove) == file

\* printer.py:77-81.  os.remove raises OSError when the file is missing or
\* cannot be removed; it is caught and the file stays as it was.
os_remove(file, remove) ==
    IF file.exists /\ remove = "ok" THEN NoFile ELSE file

\* A comparison of line 107 that takes every reported switch for "off".
switch_of_always_off(response) ==
    CASE response.data = "null" -> "AttributeError"
      [] response.data \in {"None", "{}"} -> "None"
      [] OTHER -> "off"

\* printer.py:107: response.get('data', {}).get('switch'); "AttributeError"
\* when data is no object.
switch_of(response) ==
    CASE response.data = "null" -> "AttributeError"
      [] response.data \in {"None", "{}"} -> "None"
      [] OTHER -> response.data

(* ------------------------------ state ---------------------------------- *)

VARIABLES
    now,        \* the clock, Unix seconds
    LOCK_FILE,  \* the marker file /tmp/printer_sonoff.lock
    device,     \* the switch of the smart plug, "on" or "off"
    run,        \* the invocation that has just ended, Idle between runs
    armed,      \* the last turn_on_printer that returned True: when it
                \* returned, and the timestamp it stored in the marker
                \* (-1 when its write failed); Unarmed when none has
    on,         \* an overlapping "on" invocation: its position and locals
    off,        \* an overlapping "off" invocation: its position and locals
    raced       \* what the overlapping invocations did to each other

vars == <<now, LOCK_FILE, device, run, armed, on, off, raced>>

overlap_vars == <<on, off, raced>>

Unarmed == [returned |-> -1, stored |-> -1]

\* The record of one invocation: what it found, what it received and did.
Idle ==
    [op |-> "idle", argv |-> <<>>, time |-> 0, file |-> NoFile,
     device |-> "off", sent |-> <<>>, answers |-> <<>>, lp |-> LpNotRun,
     io |-> <<>>, ret |-> "None", exit |-> 0]

\* An invocation ends d seconds after it began: its record is kept, the
\* marker and the device are as it left them.
Ends(r, file, dev, arm, d) ==
    /\ run' = r
    /\ LOCK_FILE' = file
    /\ device' = dev
    /\ armed' = arm
    /\ now' = now + d
    /\ UNCHANGED overlap_vars

\* The record of an invocation that begins now, reached with argv.
Begin(op, argv) ==
    [Idle EXCEPT !.op = op, !.argv = argv, !.time = now,
                 !.file = LOCK_FILE, !.device = device]

(* --------------------------- check_and_turn_off ------------------------ *)

\* printer.py:45-83, called with the command line argv (<<>> when called
\* as a function).  current_time is read first (line 47).
check_and_turn_off_call(argv) ==
    \E d \in 0..MaxElapsed, read \in {"ok", "IOError"} :
      /\ now + d <= MaxTime
      /\ LOCK_FILE.exists \/ read = "ok"
      /\ LET current_time == now
             b == Begin("off", argv)
             b1 == IF LOCK_FILE.exists
                   THEN [b EXCEPT !.io = <<"read " \o read>>] ELSE b
             should_turn_off == marker_check(LOCK_FILE, current_time, read)
         IN
         CASE should_turn_off = "ValueError" ->
                Ends([b1 EXCEPT !.ret = "ValueError", !.exit = ExitFailure],
                     LOCK_FILE, device, armed, d)
           [] should_turn_off = "False" ->
                Ends(b1, LOCK_FILE, device, armed, d)
           [] should_turn_off = "True" ->
                \E lp \in LpOutcomes :
                  LET b2 == [b1 EXCEPT !.lp = lp] IN
                  IF lp.kind = "OSError"
                  THEN Ends([b2 EXCEPT !.ret = "OSError", !.exit = ExitFailure],
                            LOCK_FILE, device, armed, d)
                  ELSE IF Len(get_pending_print_jobs(lp)) > 0
                  THEN Ends(b2, LOCK_FILE, device, armed, d)
                  ELSE \E answer \in SwitchAnswers :
                         LET r == make_printer_request(answer)
                             b3 == [b2 EXCEPT !.sent = <<"switch off">>,
                                              !.answers = <<answer>>]
                             dev == DeviceAfter(device, "off", answer)
                         IN
                         IF command_succeeded(r)
                         THEN \E remove \in {"ok", "OSError"} :
                                /\ LOCK_FILE.exists \/ remove = "OSError"
                                /\ Ends([b3 EXCEPT !.io = @ \o <<"remove " \o remove>>],
                                        os_remove(LOCK_FILE, remove), dev, armed, d)
                         ELSE Ends(b3, LOCK_FILE, dev, armed, d)

check_and_turn_off ==
    /\ run.op = "idle"
    /\ check_and_turn_off_call(<<>>)

(* ----------------------------- turn_on_printer ------------------------- *)

\* printer.py:112-114 and 119-121: write_timestamp_file(LOCK_FILE), then
\* return True whatever the write came to.  The invocation takes d seconds;
\* the timestamp is read at the write, w seconds after it began.
write_and_return_True(b, dev, d) ==
    \E w \in 0..d, write \in {"ok", "IOError at open", "IOError at write"} :
      Ends([b EXCEPT !.io = <<"write " \o write>>, !.ret = "True"],
           write_timestamp_file(LOCK_FILE, now + w, write), dev,
           [returned |-> now + d,
            stored |-> IF write = "ok" THEN now + w ELSE -1],
           d)

\* printer.py:94-124, called with the command line argv.
turn_on_printer_call(argv) ==
    \E d \in 0..MaxElapsed, info \in InfoAnswers(device) :
      /\ now + d <= MaxTime
      /\ LET r == make_printer_request(info)
             b == [Begin("on", argv) EXCEPT !.sent = <<"info">>,
                                            !.answers = <<info>>]
             False == [b EXCEPT !.ret = "False"]
         IN
         IF r.status_code # HttpOk
         THEN Ends(False, LOCK_FILE, device, armed, d)
         ELSE IF switch_of(r.response) = "AttributeError"
         THEN Ends(False, LOCK_FILE, device, armed, d)
         ELSE IF switch_of(r.response) = "off"
         THEN \E answer \in SwitchAnswers :
                LET r2 == make_printer_request(answer)
                    b2 == [b EXCEPT !.sent = @ \o <<"switch on">>,
                                    !.answers = @ \o <<answer>>]
                    dev == DeviceAfter(device, "on", answer)
                IN
                IF command_succeeded(r2)
                THEN write_and_return_True(b2, dev, d)
                ELSE Ends([b2 EXCEPT !.ret = "False"], LOCK_FILE, dev, armed, d)
         ELSE write_and_return_True(b, device, d)

turn_on_printer ==
    /\ run.op = "idle"
    /\ turn_on_printer_call(<<>>)

(* ------------------------------- __main__ ------------------------------ *)

\* printer.py:127-140.  Line 128 reads sys.argv; a name no import binds
\* raises NameError there, and the interpreter ends with status 1.
main ==
    /\ run.op = "idle"
    /\ \E argv \in CommandLines :
         IF "sys" \notin Imports
         THEN Ends([Begin("main", argv) EXCEPT !.ret = "NameError",
                                               !.exit = ExitFailure],
                   LOCK_FILE, device, armed, 0)
         ELSE IF Len(argv) # ExpectedArgc
         THEN Ends([Begin("main", argv) EXCEPT !.exit = ExitFailure],
                   LOCK_FILE, device, armed, 0)
         ELSE IF argv[2] = "on" THEN turn_on_printer_call(argv)
         ELSE IF argv[2] = "off" THEN check_and_turn_off_call(argv)
         ELSE Ends([Begin("main", argv) EXCEPT !.exit = ExitFailure],
                   LOCK_FILE, device, armed, 0)

(* ------------------------------ the clock ------------------------------ *)

\* The process is gone; nothing runs until the scheduler starts the next.
Exit ==
    /\ run.op # "idle"
    /\ run' = Idle
    /\ UNCHANGED <<now, LOCK_FILE, device, armed, overlap_vars>>

\* A second passes between invocations.
Tick ==
    /\ run.op = "idle"
    /\ now < MaxTime
    /\ now' = now + 1
    /\ UNCHANGED <<LOCK_FILE, device, run, armed, overlap_vars>>

(* ---------------------- run-to-completion invocations ------------------ *)

NotOverlapping == [pc |-> "none", current_time |-> 0]

\* on_at: when the "on" process last switched the device on or stored its
\* timestamp (-1: not yet); wrote: it stored its timestamp; switched_off: the
\* "off" process switched the device off less than Window seconds after
\* on_at; deleted: the "off" process removed the marker the "on" process
\* had stored.
NoRace == [on_at |-> -1, wrote |-> FALSE, switched_off |-> FALSE, deleted |-> FALSE]

Init ==
    /\ now = Window
    /\ LOCK_FILE \in InitialFiles
    /\ device \in {"on", "off"}
    /\ run = Idle
    /\ armed = Unarmed
    /\ on = NotOverlapping
    /\ off = NotOverlapping
    /\ raced = NoRace

Next ==
    \/ turn_on_printer
    \/ check_and_turn_off
    \/ main
    \/ Exit
    \/ Tick

Spec == Init /\ [][Next]_vars

(* ----------------------- overlapping invocations ----------------------- *)

\* The scheduler has started one "on" and one "off" process that run at the
\* same time.  Each step below is one blocking call of the process (an HTTP
\* exchange, a file operation, the lpstat subprocess) with the statements
\* that follow it up to the next call.

OnAt(pc) == on' = [on EXCEPT !.pc = pc]

OffAt(pc) == off' = [off EXCEPT !.pc = pc]

\* printer.py:100-107 and 118: the status query and the branch on it.
on_query ==
    /\ on.pc = "start"
    /\ \E info \in InfoAnswers(device) :
         LET r == make_printer_request(info) IN
         IF r.status_code # HttpOk THEN OnAt("False")
         ELSE IF switch_of(r.response) = "AttributeError" THEN OnAt("False")
         ELSE IF switch_of(r.response) = "off" THEN OnAt("switch")
         ELSE OnAt("write")
    /\ UNCHANGED <<now, LOCK_FILE, device, run, armed, off, raced>>

\* printer.py:109-117: the "on" command.
on_switch ==
    /\ on.pc = "switch"
    /\ \E answer \in SwitchAnswers :
         /\ device' = DeviceAfter(device, "on", answer)
         /\ IF command_succeeded(make_printer_request(answer))
            THEN OnAt("write") /\ raced' = [raced EXCEPT !.on_at = now]
            ELSE OnAt("False") /\ UNCHANGED raced
    /\ UNCHANGED <<now, LOCK_FILE, run, armed, off>>

\* printer.py:112-114 and 119-121: the marker write, then return True.
on_write ==
    /\ on.pc = "write"
    /\ \E write \in {"ok", "IOError at open", "IOError at write"} :
         /\ LOCK_FILE' = write_timestamp_file(LOCK_FILE, now, write)
         /\ raced' = IF write = "ok"
                     THEN [raced EXCEPT !.on_at = now, !.wrote = TRUE]
                     ELSE raced
    /\ OnAt("True")
    /\ UNCHANGED <<now, device, run, armed, off>>

\* printer.py:47-48: current_time = get_current_timestamp()
off_begin ==
    /\ off.pc = "start"
    /\ off' = [pc |-> "marker", current_time |-> now]
    /\ UNCHANGED <<now, LOCK_FILE, device, run, armed, on, raced>>

\* printer.py:52-62: the marker check.
off_marker ==
    /\ off.pc = "marker"
    /\ \E read \in {"ok", "IOError"} :
         LET should_turn_off == marker_check(LOCK_FILE, off.current_time, read) IN
         CASE should_turn_off = "True" -> OffAt("lpstat")
           [] should_turn_off = "False" -> OffAt("done")
           [] should_turn_off = "ValueError" -> OffAt("ValueError")
    /\ UNCHANGED <<now, LOCK_FILE, device, run, armed, on, raced>>

\* printer.py:65-69: the print queue.
off_lpstat ==
    /\ off.pc = "lpstat"
    /\ \E lp \in LpOutcomes :
         IF lp.kind = "OSError" THEN OffAt("OSError")
         ELSE IF Len(get_pending_print_jobs(lp)) > 0 THEN OffAt("done")
         ELSE OffAt("switch")
    /\ UNCHANGED <<now, LOCK_FILE, device, run, armed, on, raced>>

\* printer.py:72-76 and 82-83: the "off" command.
off_switch ==
    /\ off.pc = "switch"
    /\ \E answer \in SwitchAnswers :
         /\ device' = DeviceAfter(device, "off", answer)
         /\ IF command_succeeded(make_printer_request(answer))
            THEN /\ OffAt("remove")
                 /\ raced' = [raced EXCEPT !.switched_off =
                                @ \/ (raced.on_at >= 0 /\ now < raced.on_at + Window)]
            ELSE OffAt("done") /\ UNCHANGED raced
    /\ UNCHANGED <<now, LOCK_FILE, run, armed, on>>

\* printer.py:77-81: the marker removal.
off_remove ==
    /\ off.pc = "remove"
    /\ \E remove \in {"ok", "OSError"} :
         /\ LOCK_FILE.exists \/ remove = "OSError"
         /\ LOCK_FILE' = os_remove(LOCK_FILE, remove)
         /\ raced' = [raced EXCEPT !.deleted =
                        @ \/ (raced.wrote /\ LOCK_FILE.exists /\ remove = "ok"
                              /\ LOCK_FILE.content = str(raced.on_at))]
    /\ OffAt("done")
    /\ UNCHANGED <<now, device, run, armed, on>>

\* A second passes while the two processes run.
OverlapTick ==
    /\ now < MaxTime
    /\ now' = now + 1
    /\ UNCHANGED <<LOCK_FILE, device, run, armed, on, off, raced>>

InitOverlap ==
    /\ now = Window
    /\ LOCK_FILE \in InitialFiles
    /\ device \in {"on", "off"}
    /\ run = Idle
    /\ armed = Unarmed
    /\ on = [pc |-> "start", current_time |-> 0]
    /\ off = [pc |-> "start", current_time |-> 0]
    /\ raced = NoRace

NextOverlap ==
    \/ on_query
    \/ on_switch
    \/ on_write
    \/ off_begin
    \/ off_marker
    \/ off_lpstat
    \/ off_switch
    \/ off_remove
    \/ OverlapTick

SpecOverlap == InitOverlap /\ [][NextOverlap]_vars

(* ------------------------------ properties ----------------------------- *)

\* The invocation run was a call of check_and_turn_off / turn_on_printer.
WasOff == run.op = "off"

WasOn == run.op = "on"

SentOff == \E i \in 1..Len(run.sent) : run.sent[i] = "switch off"

\* The marker file is as the invocation found it.
MarkerUntouched == LOCK_FILE = run.file

\* The marker the invocation found holds a timestamp: its text, stripped,
\* is a non-empty string of decimal digits.
HeldTimestamp ==
    /\ run.file.exists
    /\ Len(strip(run.file.content)) > 0
    /\ \A i \in 1..Len(strip(run.file.content)) :
         strip(run.file.content)[i] \in AsciiDigit

\* The age of that timestamp when the invocation read the clock.
MarkerAge == run.time - int(strip(run.file.content))

\* A device answer that is a failure: transport failure, a status other
\* than 200, or a nonzero error field.
Failure(answer) ==
    \/ answer.kind = "exception"
    \/ answer.status # HttpOk
    \/ answer.error \notin {"0", "None"}

\* The device answered with status 200 and error 0.
Acknowledged(answer) ==
    answer.kind = "http" /\ answer.status = HttpOk /\ answer.error = "0"

\* C1 as claimed: check_and_turn_off sends "off" only if the marker is
\* absent or holds a timestamp more than 60 seconds old.
C1_AsClaimed ==
    (WasOff /\ SentOff) =>
        \/ ~run.file.exists
        \/ (HeldTimestamp /\ MarkerAge > Window)

\* C1 as amended: check_and_turn_off sends "off" only if the marker is
\* absent, or its stripped content is empty or not a string of decimal
\* digits, or the timestamp it holds is at least 60 seconds old.
C1_MarkerGate ==
    (WasOff /\ SentOff) =>
        \/ ~run.file.exists
        \/ ~HeldTimestamp
        \/ MarkerAge >= Window

\* "off" was sent with a marker exactly 60 seconds old.
C1_Witness ==
    WasOff /\ SentOff /\ HeldTimestamp /\ MarkerAge = Window

\* C2: when lpstat prints output that is not empty once stripped,
\* check_and_turn_off sends no request and leaves the marker as it was.
C2_QueueBlocks ==
    (WasOff /\ run.lp.kind = "ran" /\ Len(strip(run.lp.stdout)) > 0) =>
        (run.sent = <<>> /\ MarkerUntouched)

\* lpstat reported a job while an old marker was in place.
C2_Witness ==
    /\ WasOff /\ run.lp.kind = "ran" /\ Len(strip(run.lp.stdout)) > 0
    /\ HeldTimestamp /\ MarkerAge >= Window
    /\ run.sent = <<>>

C4_AsClaimed ==
    ((WasOn \/ WasOff)
      /\ \E i \in 1..Len(run.answers) : Failure(run.answers[i])) =>
        MarkerUntouched

\* The status response reports the switch as "on".
ReportsOn == WasOn /\ run.answers[1].kind = "http" /\ run.answers[1].data = "on"

\* C5 as claimed: when the status response reports "on", turn_on_printer
\* sends no switch command, stores the current timestamp in the marker,
\* returns True and leaves the device as it was.
C5_AsClaimed ==
    ReportsOn =>
        /\ run.sent = <<"info">>
        /\ \E ts \in run.time..now : LOCK_FILE = FileWith(str(ts))
        /\ run.ret = "True"
        /\ device = run.device

\* C5 as amended: when the status query is answered with status 200 and
\* reports "on", turn_on_printer sends no switch command, returns True and
\* leaves the device as it was; the marker then holds the current timestamp
\* unless the write raised IOError, and then it is as it was (open failed)
\* or empty (write failed).
C5_AlreadyOn ==
    (ReportsOn /\ run.answers[1].status = HttpOk) =>
        /\ run.sent = <<"info">>
        /\ run.ret = "True"
        /\ device = run.device
        /\ CASE run.io = <<"write ok">> ->
                  \E ts \in run.time..now : LOCK_FILE = FileWith(str(ts))
             [] run.io = <<"write IOError at open">> -> MarkerUntouched
             [] run.io = <<"write IOError at write">> -> LOCK_FILE = FileWith(<<>>)
             [] OTHER -> FALSE

\* The device was on and an older marker was replaced.
C5_Witness ==
    /\ ReportsOn /\ run.answers[1].status = HttpOk
    /\ run.io = <<"write ok">>
    /\ run.file.exists
    /\ LOCK_FILE # run.file

\* "off" was sent and the device acknowledged it.
SwitchedOff == WasOff /\ SentOff /\ Acknowledged(run.answers[1])

\* C6 as claimed: after an acknowledged "off" the marker is absent;
\* otherwise check_and_turn_off does not remove it.
C6_AsClaimed ==
    /\ SwitchedOff => ~LOCK_FILE.exists
    /\ (WasOff /\ ~SwitchedOff) => MarkerUntouched

\* C6 as amended: after an acknowledged "off" the marker is absent, unless
\* os.remove raised OSError on an existing marker, and then the marker is
\* as it was; otherwise check_and_turn_off does not remove it.
C6_MarkerRemoved ==
    /\ SwitchedOff =>
         IF run.file.exists /\ run.io[Len(run.io)] = "remove OSError"
         THEN MarkerUntouched
         ELSE ~LOCK_FILE.exists
    /\ (WasOff /\ ~SwitchedOff) => MarkerUntouched

\* An acknowledged "off" removed an existing marker.
C6_Witness == SwitchedOff /\ run.file.exists /\ ~LOCK_FILE.exists

\* C7: when the lpstat call raises SubprocessError, no "off" is sent and
\* the marker is not deleted.
C7_AsClaimed ==
    (WasOff /\ run.lp.kind = "SubprocessError") =>
        (~SentOff /\ MarkerUntouched)

\* C8: with one argument "on" the entry point runs turn_on_printer, with
\* "off" check_and_turn_off; with any other command line it runs neither,
\* sends nothing, leaves the marker alone and exits nonzero.
C8_AsClaimed ==
    (Len(run.argv) > 0) =>
        IF Len(run.argv) = ExpectedArgc /\ run.argv[2] = "on" THEN WasOn
        ELSE IF Len(run.argv) = ExpectedArgc /\ run.argv[2] = "off" THEN WasOff
        ELSE /\ run.op = "main"
             /\ run.sent = <<>>
             /\ MarkerUntouched
             /\ run.exit # 0

\* C9: turn_on_printer returns True exactly when the status query
\* succeeded and reported "on", or reported "off" and the "on" command was
\* acknowledged; otherwise it returns False; it sends "on" at most once,
\* after the status query.
C9_AsClaimed ==
    WasOn =>
        /\ run.ret \in {"True", "False"}
        /\ run.ret = "True" <=>
             /\ run.answers[1].kind = "http"
             /\ run.answers[1].status = HttpOk
             /\ \/ run.answers[1].data = "on"
                \/ /\ run.answers[1].data = "off"
                   /\ Len(run.answers) = 2
                   /\ Acknowledged(run.answers[2])
        /\ run.sent \in {<<"info">>, <<"info", "switch on">>}

\* C10: when an "on" and an "off" invocation overlap, check_and_turn_off
\* never switches the printer off less than 60 seconds after
\* turn_on_printer switched it on or refreshed the marker, and never
\* deletes the marker that turn_on_printer wrote.
C10_AsClaimed == ~raced.switched_off /\ ~raced.deleted

====
